---- MODULE Spec2Model ----
(***************************************************************************)
(* Model of src/.../blockchain.js (class Blockchain).                      *)
(*                                                                         *)
(* JavaScript runs every promise continuation as a microtask, in FIFO      *)
(* order.  `queue` is that microtask queue: each `await` of the source     *)
(* puts the rest of the function at the back of the queue, and one step of *)
(* the model runs the task at the front up to its next `await`.  Calls of  *)
(* the public methods come from callers outside the class and may be       *)
(* issued between any two microtasks.                                      *)
(*                                                                         *)
(* Block objects are kept in a heap `blk` (id -> fields) and `chain` holds *)
(* references (ids), as the JavaScript array holds object references.      *)
(***************************************************************************)
EXTENDS Integers, Sequences, FiniteSets, TLC

\* ---------------------------------------------------------------- bounds
MaxCalls    == 2   \* submitStar calls
MaxValidate == 1   \* validateChain calls issued by outside callers
MaxTicks    == 1   \* advances of the wall clock
MaxScans    == 1   \* getStarsByWalletAddress calls

\* ------------------------------------------------------------ input sets
Addresses == {"X", "Y"}
Stars     == {"s1"}
T0Ms      == 1000000000   \* wall clock (ms) when the constructor runs
TickMs    == 1500         \* one advance of the wall clock (ms)
\* seconds between the time embedded in a submitted message and the clock
Elapsed   == {-10, 299, 300, 301, 300000, 300001}

VARIABLES
    chain,       \* this.chain: sequence of block references
    height,      \* this.height
    blk,         \* heap of Block objects: id -> fields
    nowMs,       \* new Date().getTime()
    queue,       \* microtask queue (FIFO) of suspended continuations
    calls,       \* the submitStar calls made so far: arguments and clock reading
    result,      \* state of the promise each submitStar call returned
    vcLog,       \* errorLog of each validateChain invocation
    vcResult,    \* settlement of each validateChain invocation
    nValidate,   \* validateChain calls issued by outside callers so far
    unhandled,   \* a forEach callback threw (rejection nobody handles)
    gs           \* the getStarsByWalletAddress calls made so far, with their `stars` array

vars == <<chain, height, blk, nowMs, queue, calls, result,
          vcLog, vcResult, nValidate, unhandled, gs>>

\* ------------------------------------------------------------ JS values
Null   == <<>>          \* null, for hash-valued fields
NoRef  == -1            \* null, for a block reference
GenesisId == 0

\* new Date().getTime().toString().slice(0,-3): drop the last three digits
UnixSeconds(ms) == ms \div 1000

\* SHA256(JSON.stringify(block)) at the time block.hash is still null:
\* an injective function of the serialised fields.
SHA256(b) == <<b.height, b.time, b.previousBlockHash, b.body>>

\* new BlockClass.Block(data)
NewBlock(data) ==
    [hash |-> Null, height |-> 0, body |-> data, time |-> 0,
     previousBlockHash |-> Null]

\* block.validate(): recompute the content hash and compare with the stored one
validate(b) == b.hash = SHA256([b EXCEPT !.hash = Null])

\* message "<address>:<time>:starRegistry"; the time component is <<t>> when
\* numeric and <<>> when absent or not a number
Message(a, field) == [address |-> a, time |-> field]

\* a signature names who signed what
Sign(a, m) == [signer |-> a, msg |-> m]

\* a signature string that does not decode to a signature
Undecodable == [undecodable |-> TRUE]

\* bitcoinMessage.verify throws, instead of returning, when the signature
\* does not decode
verifyThrows(s) == s = Undecodable

\* a verify that forgets to check who signed
verifyAnySigner(m, a, s) == s.msg = m

\* bitcoinMessage.verify(message, address, signature)
verify(m, a, s) == s.signer = a /\ s.msg = m

\* 5 * 60 * 1000
timeDiff5mins == 5 * 60 * 1000

\* an expiry check that also rejects a time that is still to come
expiredTwoSided(curTime, m) ==
    /\ m.time # <<>>
    /\ \/ (curTime - m.time[1]) > timeDiff5mins
       \/ (curTime - m.time[1]) < 0

\* parseInt(message.split(':')[1]) and (curTime - time) > timeDiff5mins,
\* where a NaN operand makes the comparison false
expired(curTime, m) ==
    /\ m.time # <<>>
    /\ (curTime - m.time[1]) > timeDiff5mins

\* chain.filter(p => p.height === height)[0], null when there is none
getBlockByHeight(ch, heap, h) ==
    LET hits == SelectSeq(ch, LAMBDA id : heap[id].height = h)
    IN  IF hits # <<>> THEN hits[1] ELSE NoRef

\* chain.find(block => block.hash === hash), null when there is none
getBlockByHash(ch, heap, hash) ==
    LET hits == SelectSeq(ch, LAMBDA id : heap[id].hash = hash)
    IN  IF hits # <<>> THEN hits[1] ELSE NoRef

\* a suspended continuation
Task(pc, id, inv, h, prev, ok) ==
    [pc |-> pc, id |-> id, inv |-> inv, h |-> h, prev |-> prev, ok |-> ok]

\* _addBlock, lines 69-73: the synchronous start of the promise executor
\* on block object `id`, up to `await self.getChainHeight()`
addBlockStarted(heap, id, reading) ==
    [heap EXCEPT ![id].height = Len(chain), ![id].time = UnixSeconds(reading)]

\* getChainHeight(): resolve(this.height)
getChainHeight == height

\* ------------------------------------------------------------------ Init
EmptyMap == [i \in {} |-> 0]

\* The state when `new Blockchain()` returns: the constructor has called
\* initializeChain(), which ran _addBlock(genesis) up to its first await.
Init ==
    /\ chain = <<>>
    /\ height = -1
    /\ nowMs = T0Ms
    /\ blk = (GenesisId :> [NewBlock([data |-> "Genesis Block"])
                              EXCEPT !.height = 0, !.time = UnixSeconds(T0Ms)])
    /\ queue = <<Task("lookup", GenesisId, <<"add", GenesisId>>, -1, NoRef, TRUE)>>
    /\ calls = <<>>
    /\ result = <<>>
    /\ vcLog = EmptyMap
    /\ vcResult = EmptyMap
    /\ nValidate = 0
    /\ unhandled = FALSE
    /\ gs = <<>>

\* ------------------------------------------------------- validateChain
\* errorLog entries
InvalidBlock(b) == [kind |-> "Invalid block", hash |-> b.hash, prev |-> Null]
InvalidPrevious(b) ==
    [kind |-> "Invalid previous block", hash |-> b.hash,
     prev |-> b.previousBlockHash]

\* lines 229-245, synchronous part: forEach calls the async callback once per
\* block; a callback returns at once for height <= 0 and otherwise calls
\* block.validate() and suspends at its first await.  The suspended callbacks:
forEachSuspended(ch, heap, inv) ==
    LET later == SelectSeq(ch, LAMBDA id : ~(heap[id].height <= 0))
    IN  [i \in 1..Len(later) |->
           Task("vcheck", later[i], inv, 0, NoRef, validate(heap[later[i]]))]

\* the errorLog a loop would hold that waited for each callback in turn
RECURSIVE awaitedLog(_, _, _)
awaitedLog(ch, heap, i) ==
    IF i > Len(ch) THEN <<>>
    ELSE LET b == heap[ch[i]]
             prev == getBlockByHash(ch, heap, b.previousBlockHash)
             found ==
                IF b.height <= 0 THEN <<>>
                ELSE IF ~validate(b) THEN <<InvalidBlock(b)>>
                ELSE IF prev = NoRef THEN <<>>
                ELSE IF heap[prev].hash # b.hash THEN <<InvalidPrevious(b)>>
                ELSE <<>>
         IN  found \o awaitedLog(ch, heap, i + 1)

forEachAwaitedLog(ch, heap) == awaitedLog(ch, heap, 1)

\* errorLog when forEach returns (line 247): no callback has got past its
\* first await, so nothing has been pushed
forEachSyncLog(ch, heap) == <<>>

\* lines 247-251: reject(errorLog) or resolve(true)
settle(log, ch) == [ok |-> log = <<>>, errors |-> log, len |-> Len(ch)]

\* ------------------------------------------------------------ _addBlock
\* hashing before the link to the previous block is made
finalizedUnlinked(b, prev, heap) ==
    LET hashed == [b EXCEPT !.hash = SHA256(b)]
    IN  IF prev # NoRef
        THEN [hashed EXCEPT !.previousBlockHash = heap[prev].hash]
        ELSE hashed

\* lines 76-82: link to prevBlock when there is one, then hash and validate
finalized(b, prev, heap) ==
    LET linked == IF prev # NoRef
                  THEN [b EXCEPT !.previousBlockHash = heap[prev].hash]
                  ELSE b
    IN  [linked EXCEPT !.hash = SHA256(linked)]

\* line 74: the height looked up for the predecessor
prevHeight(b) == b.height - 1

\* an off-by-one reading of the height
hasPreviousAboveOne(h) == h > 1

\* line 73: whether the predecessor is looked up
hasPrevious(h) == h > 0

\* chain[block.height] = block instead of a push
storedAtHeight(ch, id) ==
    LET at == blk[id].height + 1
    IN  [i \in 1..(IF at > Len(ch) THEN at ELSE Len(ch)) |->
           IF i = at THEN id ELSE ch[i]]

\* a push that skips a block whose body is already in the chain
pushedUnlessKnown(ch, id) ==
    IF \E j \in 1..Len(ch) : blk[ch[j]].body = blk[id].body
    THEN ch
    ELSE Append(ch, id)

\* line 88: self.chain.push(block)
pushed(ch, id) == Append(ch, id)

\* line 89: self.height = self.chain.length
newHeight(ch) == Len(ch)

\* resumes after `await self.getChainHeight()` (line 73) with the value t.h
AddBlockLookup ==
    /\ queue # <<>>
    /\ Head(queue).pc = "lookup"
    /\ LET t == Head(queue) IN
       IF hasPrevious(t.h)
       THEN /\ queue' = Append(Tail(queue),
                   [t EXCEPT !.pc = "link",
                             !.prev = getBlockByHeight(chain, blk, prevHeight(blk[t.id]))])
            /\ UNCHANGED blk
       ELSE LET b == finalized(blk[t.id], NoRef, blk) IN
            /\ blk' = [blk EXCEPT ![t.id] = b]
            /\ queue' = Append(Tail(queue),
                   [t EXCEPT !.pc = "push", !.ok = validate(b)])
    /\ UNCHANGED <<chain, height, nowMs, calls, result,
                   vcLog, vcResult, nValidate, unhandled, gs>>

\* resumes after `await self.getBlockByHeight(...)` (line 74) with t.prev
AddBlockLink ==
    /\ queue # <<>>
    /\ Head(queue).pc = "link"
    /\ LET t == Head(queue)
           b == finalized(blk[t.id], t.prev, blk)
       IN  /\ blk' = [blk EXCEPT ![t.id] = b]
           /\ queue' = Append(Tail(queue),
                  [t EXCEPT !.pc = "push", !.ok = validate(b)])
    /\ UNCHANGED <<chain, height, nowMs, calls, result,
                   vcLog, vcResult, nValidate, unhandled, gs>>

\* resumes after `await block.validate()` (line 82) with t.ok: lines 84-91
AddBlockPush ==
    /\ queue # <<>>
    /\ Head(queue).pc = "push"
    /\ LET t == Head(queue) IN
       IF ~t.ok
       THEN \* reject(Error('Block is invalid ...'))
            /\ queue' = Tail(queue)
            /\ UNCHANGED <<chain, height, vcLog, vcResult>>
       ELSE LET ch  == pushed(chain, t.id)
                log == forEachSyncLog(ch, blk)
                r   == settle(log, ch)
            IN  /\ chain' = ch
                /\ height' = newHeight(ch)
                /\ vcLog' = vcLog @@ (t.inv :> log)
                /\ vcResult' = vcResult @@ (t.inv :> r)
                /\ queue' = Tail(queue) \o forEachSuspended(ch, blk, t.inv)
                              \o <<[t EXCEPT !.pc = "finish", !.ok = r.ok]>>
    /\ UNCHANGED <<blk, nowMs, calls, result, nValidate, unhandled, gs>>

\* resumes after `await self.validateChain()` (line 91): lines 93-97.  A
\* rejected validateChain makes the await throw inside the executor, which
\* settles nothing.  resolve(block) settles the promise _addBlock returned;
\* submitStar's `await self._addBlock(block)` resumes one reaction later.
AddBlockFinish ==
    /\ queue # <<>>
    /\ Head(queue).pc = "finish"
    /\ LET t == Head(queue) IN
       queue' = IF t.ok /\ t.id # GenesisId
                THEN Append(Tail(queue), [t EXCEPT !.pc = "relay"])
                ELSE Tail(queue)
    /\ UNCHANGED <<chain, height, blk, nowMs, calls, result,
                   vcLog, vcResult, nValidate, unhandled, gs>>

\* the async function _addBlock returned a promise: its own promise follows it
SubmitRelay ==
    /\ queue # <<>>
    /\ Head(queue).pc = "relay"
    /\ queue' = Append(Tail(queue), [Head(queue) EXCEPT !.pc = "resolve"])
    /\ UNCHANGED <<chain, height, blk, nowMs, calls, result,
                   vcLog, vcResult, nValidate, unhandled, gs>>

\* submitStar line 155: resolve(block)
SubmitResolve ==
    /\ queue # <<>>
    /\ Head(queue).pc = "resolve"
    /\ result' = [result EXCEPT ![Head(queue).id] = "resolved"]
    /\ queue' = Tail(queue)
    /\ UNCHANGED <<chain, height, blk, nowMs, calls,
                   vcLog, vcResult, nValidate, unhandled, gs>>

\* a forEach callback resumes after `await block.validate()` (line 234)
VcValidated ==
    /\ queue # <<>>
    /\ Head(queue).pc = "vcheck"
    /\ LET t == Head(queue) IN
       IF ~t.ok
       THEN /\ vcLog' = [vcLog EXCEPT ![t.inv] = Append(@, InvalidBlock(blk[t.id]))]
            /\ queue' = Tail(queue)
       ELSE /\ queue' = Append(Tail(queue),
                   [t EXCEPT !.pc = "vlink",
                             !.prev = getBlockByHash(chain, blk,
                                          blk[t.id].previousBlockHash)])
            /\ UNCHANGED vcLog
    /\ UNCHANGED <<chain, height, blk, nowMs, calls, result,
                   vcResult, nValidate, unhandled, gs>>

\* line 242: prevBlock.hash !== block.hash
linkMismatch(prevB, b) == prevB.hash # b.hash

\* a forEach callback resumes after `await self.getBlockByHash(...)` (line 240);
\* reading prevBlock.hash of null throws inside the callback
VcLinked ==
    /\ queue # <<>>
    /\ Head(queue).pc = "vlink"
    /\ LET t == Head(queue) IN
       IF t.prev = NoRef
       THEN /\ unhandled' = TRUE
            /\ UNCHANGED vcLog
       ELSE /\ vcLog' = IF linkMismatch(blk[t.prev], blk[t.id])
                        THEN [vcLog EXCEPT ![t.inv] =
                                 Append(@, InvalidPrevious(blk[t.id]))]
                        ELSE vcLog
            /\ UNCHANGED unhandled
    /\ queue' = Tail(queue)
    /\ UNCHANGED <<chain, height, blk, nowMs, calls, result,
                   vcResult, nValidate, gs>>

\* validateChain() called from outside: lines 224-253 up to the settlement
ValidateChain ==
    /\ nValidate < MaxValidate
    /\ LET inv == <<"ext", nValidate + 1>>
           log == forEachSyncLog(chain, blk)
       IN  /\ vcLog' = vcLog @@ (inv :> log)
           /\ vcResult' = vcResult @@ (inv :> settle(log, chain))
           /\ queue' = queue \o forEachSuspended(chain, blk, inv)
    /\ nValidate' = nValidate + 1
    /\ UNCHANGED <<chain, height, blk, nowMs, calls, result, unhandled, gs>>

\* ---------------------------------------------------------- submitStar
\* lines 136-157 up to the first await (inside _addBlock), run when the
\* clock reads `reading`
submitStar(address, message, signature, star, reading) ==
    LET curTime == UnixSeconds(reading)
        id == Len(calls) + 1
        body == [address |-> address, message |-> message,
                 signature |-> signature, star |-> star]
    IN
    /\ nowMs' = reading
    /\ calls' = Append(calls, body @@ [curTime |-> curTime])
    /\ IF expired(curTime, message)
       THEN /\ result' = Append(result, "More than 5 minutes have elapsed")
            /\ UNCHANGED <<blk, queue>>
       ELSE IF verifyThrows(signature)
       THEN \* the throw ends the async executor: neither resolve nor reject
            \* is called
            /\ result' = Append(result, "pending")
            /\ UNCHANGED <<blk, queue>>
       ELSE IF ~verify(message, address, signature)
       THEN /\ result' = Append(result, "Failed to verify message")
            /\ UNCHANGED <<blk, queue>>
       ELSE /\ result' = Append(result, "pending")
            /\ blk' = addBlockStarted(blk @@ (id :> NewBlock(body)), id, reading)
            /\ queue' = Append(queue,
                   Task("lookup", id, <<"add", id>>, getChainHeight, NoRef, TRUE))

\* the clock readings a call made now can get
Readings == {r \in {nowMs, nowMs + TickMs} : r <= T0Ms + MaxTicks * TickMs}

\* a submitStar call with arguments drawn from the given sets
SubmitStarWith(addresses, signers, stars, elapsed, fields) ==
    /\ Len(calls) < MaxCalls
    /\ \E a \in addresses, signer \in signers, star \in stars, reading \in Readings :
         \E field \in {<<UnixSeconds(reading) - e>> : e \in elapsed} \cup fields :
            LET m == Message(a, field)
            IN  submitStar(a, m, Sign(signer, m), star, reading)
    /\ UNCHANGED <<chain, height, vcLog, vcResult, nValidate, unhandled, gs>>

\* an _addBlock call has started and not yet settled or failed
AppendInProgress ==
    \E i \in 1..Len(queue) : queue[i].pc \in {"lookup", "link", "push", "finish"}

\* ----------------------------------------------------------------- Spec
\* Calls arrive at any point between two microtasks.  The arguments are kept
\* few: what is checked under Spec does not depend on them.
SubmitStar == SubmitStarWith(Addresses, {"X"}, Stars, {299}, {})

Next ==
    \/ AddBlockLookup
    \/ AddBlockLink
    \/ AddBlockPush
    \/ AddBlockFinish
    \/ SubmitRelay
    \/ SubmitResolve
    \/ VcValidated
    \/ VcLinked
    \/ ValidateChain
    \/ SubmitStar

Spec == Init /\ [][Next]_vars

\* Each call is made when no _addBlock is in progress, with arguments from
\* the wide sets.
SubmitStarSeq ==
    /\ ~AppendInProgress
    /\ SubmitStarWith(Addresses, Addresses, Stars, Elapsed, {<<>>})

NextSeq ==
    \/ AddBlockLookup
    \/ AddBlockLink
    \/ AddBlockPush
    \/ AddBlockFinish
    \/ SubmitRelay
    \/ SubmitResolve
    \/ VcValidated
    \/ VcLinked
    \/ SubmitStarSeq

SpecSeq == Init /\ [][NextSeq]_vars

\* ------------------------------------------------ getStarsByWalletAddress
\* block.getBData(): the decoded body of the block
getBData(b) == b.body

\* body.address === address, false when the body has no address
addressIs(body, address) == "address" \in DOMAIN body /\ body.address = address

\* a scan that puts the newest star first
starsUnshifted(stars, star) == <<star>> \o stars

\* stars.push(body.star)
starsPushed(stars, star) == Append(stars, star)

\* self.chain.forEach(async block => { body = await block.getBData(); ... }):
\* one callback per block, each suspended at its await
forEachDecoding(ch, inv) ==
    [i \in 1..Len(ch) |-> Task("sdecode", ch[i], inv, -1, NoRef, TRUE)]

\* getStarsByWalletAddress(address), lines 201-216: the forEach starts one
\* callback per block, resolve(stars) settles the promise with the array the
\* callbacks fill later, and the caller's continuation is queued behind them
getStarsByWalletAddress(address) ==
    LET inv == <<"stars", Len(gs) + 1>>
    IN
    /\ gs' = Append(gs, [address |-> address, len |-> Len(chain),
                         stars |-> <<>>, delivered |-> FALSE, seen |-> <<>>])
    /\ queue' = queue \o forEachDecoding(chain, inv)
                      \o <<Task("sdeliver", NoRef, inv, -1, NoRef, TRUE)>>
    /\ UNCHANGED <<chain, height, blk, nowMs, calls, result,
                   vcLog, vcResult, nValidate, unhandled>>

\* a forEach callback after `await block.getBData()`, lines 208-211
StarsDecoded ==
    /\ queue # <<>>
    /\ Head(queue).pc = "sdecode"
    /\ LET t == Head(queue)
           k == t.inv[2]
           body == getBData(blk[t.id])
       IN  /\ queue' = Tail(queue)
           /\ gs' = IF addressIs(body, gs[k].address)
                    THEN [gs EXCEPT ![k].stars = starsPushed(@, body.star)]
                    ELSE gs
    /\ UNCHANGED <<chain, height, blk, nowMs, calls, result,
                   vcLog, vcResult, nValidate, unhandled>>

\* the caller's continuation: it receives the array that resolve(stars) was
\* given and reads it
StarsDelivered ==
    /\ queue # <<>>
    /\ Head(queue).pc = "sdeliver"
    /\ LET k == Head(queue).inv[2]
       IN  gs' = [gs EXCEPT ![k].delivered = TRUE, ![k].seen = gs[k].stars]
    /\ queue' = Tail(queue)
    /\ UNCHANGED <<chain, height, blk, nowMs, calls, result,
                   vcLog, vcResult, nValidate, unhandled>>

\* --------------------------------------------------------------- SpecStars
\* Stars are registered one after the other by their owners, the n-th call
\* registering star n, and the chain is scanned for the stars of an address
\* at any point.
SubmitStarOwned ==
    /\ ~AppendInProgress
    /\ Len(calls) < MaxCalls + 1
    /\ \E a \in Addresses :
          LET m == Message(a, <<UnixSeconds(nowMs) - 299>>)
          IN  submitStar(a, m, Sign(a, m), Len(calls) + 1, nowMs)
    /\ UNCHANGED <<chain, height, vcLog, vcResult, nValidate, unhandled, gs>>

GetStars ==
    /\ Len(gs) < MaxScans
    /\ \E a \in Addresses : getStarsByWalletAddress(a)

NextStars ==
    \/ AddBlockLookup
    \/ AddBlockLink
    \/ AddBlockPush
    \/ AddBlockFinish
    \/ SubmitRelay
    \/ SubmitResolve
    \/ VcValidated
    \/ VcLinked
    \/ StarsDecoded
    \/ StarsDelivered
    \/ GetStars
    \/ SubmitStarOwned

SpecStars == Init /\ [][NextStars]_vars

\* ---------------------------------------------------------------- SpecWire
\* Calls arrive at any point with the signature string the caller sent,
\* which is the owner's signature of the message or does not decode.
SubmitStarWire ==
    /\ Len(calls) < MaxCalls
    /\ \E a \in Addresses :
          LET m == Message(a, <<UnixSeconds(nowMs) - 299>>)
          IN  \E s \in {Sign(a, m), Undecodable} :
                  submitStar(a, m, s, "s1", nowMs)
    /\ UNCHANGED <<chain, height, vcLog, vcResult, nValidate, unhandled, gs>>

NextWire ==
    \/ AddBlockLookup
    \/ AddBlockLink
    \/ AddBlockPush
    \/ AddBlockFinish
    \/ SubmitRelay
    \/ SubmitResolve
    \/ VcValidated
    \/ VcLinked
    \/ SubmitStarWire

SpecWire == Init /\ [][NextWire]_vars

\* ================================================================ claims
Block(i) == blk[chain[i]]

\* every block after the first names the hash of the block before it
Linked ==
    \A i \in 2..Len(chain) :
        Block(i).previousBlockHash = Block(i - 1).hash

IsPrefix(s, t) == Len(s) <= Len(t) /\ \A i \in 1..Len(s) : s[i] = t[i]

Expired5min == "More than 5 minutes have elapsed"
VerifyFailed == "Failed to verify message"

\* the signature is the one `address` makes of `message`
SignatureMatches(c) == c.signature = Sign(c.address, c.message)

\* C1: when each _addBlock completes before the next one starts, every
\* block at index h > 0 has previousBlockHash equal to the hash of the block
\* at index h-1, and looking that hash up finds a block with that hash.
C1_Linkage ==
    \A i \in 2..Len(chain) :
        /\ Block(i).previousBlockHash = Block(i - 1).hash
        /\ LET found == getBlockByHash(chain, blk, Block(i).previousBlockHash)
           IN  found # NoRef /\ blk[found].hash = Block(i - 1).hash

C1_Witness ==
    /\ Len(chain) = 3
    /\ ~AppendInProgress
    /\ Block(3).previousBlockHash = Block(2).hash
    /\ Block(2).previousBlockHash = Block(1).hash

\* C2: under every interleaving of overlapping _addBlock calls each block's
\* height equals its index and each block after the first is linked to the
\* block before it.
C2_AtomicAppend ==
    /\ \A i \in 1..Len(chain) : Block(i).height = i - 1
    /\ Linked

\* the findings the claim requires of validateChain on the chain `ch`
RECURSIVE Findings(_, _)
Findings(ch, i) ==
    IF i > Len(ch) THEN <<>>
    ELSE LET b == blk[ch[i]]
             invalid == IF b.height >= 1 /\ ~validate(b)
                        THEN <<InvalidBlock(b)>> ELSE <<>>
             unlinked == IF /\ b.height >= 1
                            /\ getBlockByHash(ch, blk, b.previousBlockHash) = NoRef
                         THEN <<InvalidPrevious(b)>> ELSE <<>>
         IN  invalid \o unlinked \o Findings(ch, i + 1)

\* C3: every result validateChain delivers lists, in block order, every
\* invalid block and every block whose previousBlockHash matches no block of
\* the chain it looked at, and is a success only when there is none.
C3_ReportsAll ==
    \A inv \in DOMAIN vcResult :
        LET r == vcResult[inv]
            expected == Findings(SubSeq(chain, 1, r.len), 1)
        IN  /\ r.errors = expected
            /\ r.ok <=> (expected = <<>>)

\* C4: validateChain reports no errors right after construction and right
\* after an append: every settlement, of the call each _addBlock makes after
\* its push and of the calls made from outside, is a success with no errors.
C4_NoErrors ==
    \A inv \in DOMAIN vcResult :
        vcResult[inv].ok /\ vcResult[inv].errors = <<>>

C4_Witness ==
    /\ <<"ext", 1>> \in DOMAIN vcResult
    /\ vcResult[<<"ext", 1>>].len = 3
    /\ vcResult[<<"ext", 1>>].ok
    /\ <<"add", GenesisId>> \in DOMAIN vcResult
    /\ \E i \in 1..Len(result) : result[i] = "resolved"

\* C5: a submitStar whose message embeds time t, processed at time now, fails
\* as expired whenever now - t > 300 seconds, and is not rejected as expired
\* when now - t <= 300.
C5_Expiry300 ==
    \A i \in 1..Len(calls) :
        LET c == calls[i] IN
        c.message.time # <<>> =>
            IF c.curTime - c.message.time[1] > 300
            THEN result[i] = Expired5min /\ i \notin DOMAIN blk
            ELSE result[i] # Expired5min

C7_NoSentinel ==
    /\ getChainHeight # -1
    /\ Len(chain) >= 1

\* C8: the genesis block is at index 0 with height 0 and no previous hash, and
\* no other block of the chain has height 0.
C8_GenesisOnly ==
    chain # <<>> =>
        /\ chain[1] = GenesisId
        /\ Block(1).height = 0
        /\ Block(1).previousBlockHash = Null
        /\ \A i \in 2..Len(chain) : Block(i).height # 0

\* C9: whenever no append is in progress, height = length(chain) - 1.
C9_HeightDerived ==
    ~AppendInProgress => getChainHeight = Len(chain) - 1

\* C10: every step leaves the chain a prefix of the chain after it, and the
\* fields of the blocks already in the chain as they were.
C10_AppendOnly ==
    [][ /\ IsPrefix(chain, chain')
        /\ \A i \in 1..Len(chain) : blk'[chain[i]] = blk[chain[i]] ]_vars

C10_Witness ==
    /\ Len(chain) = 3
    /\ nValidate = 1
    /\ \A i \in 1..Len(result) : result[i] = "resolved"

\* the blocks among the first `len` of the chain, other than the genesis
\* block, whose body names address `a`
OwnedBy(a, len) ==
    SelectSeq(SubSeq(chain, 1, len),
              LAMBDA id : id # GenesisId /\ blk[id].body.address = a)

\* their star fields, in chain order
ExpectedStars(a, len) ==
    [i \in 1..Len(OwnedBy(a, len)) |-> blk[OwnedBy(a, len)[i]].body.star]

C12_MalformedRejected ==
    \A i \in 1..Len(calls) :
        calls[i].message.time = <<>> =>
            /\ result[i] \notin {"pending", "resolved", VerifyFailed, Expired5min}
            /\ i \notin DOMAIN blk

\* C13: every submitStar call completes, with the block or with an error: no
\* call is left pending once nothing of it remains to run.
C13_SubmitCompletes ==
    queue = <<>> => \A i \in 1..Len(calls) : result[i] # "pending"

\* C15: in every chain state getBlockByHeight(h) delivers the block stored at
\* index h when 0 <= h < length and null otherwise, and getBlockByHash(x)
\* delivers the first block whose hash is x, or null when there is none.
C15_Lookups ==
    /\ \A h \in -1..(Len(chain) + 1) :
          getBlockByHeight(chain, blk, h) =
              IF 0 <= h /\ h < Len(chain) THEN chain[h + 1] ELSE NoRef
    /\ \A x \in {blk[id].hash : id \in DOMAIN blk} \cup {Null} :
          LET r == getBlockByHash(chain, blk, x)
          IN  IF \E j \in 1..Len(chain) : Block(j).hash = x
              THEN \E j \in 1..Len(chain) :
                      /\ chain[j] = r
                      /\ Block(j).hash = x
                      /\ \A k \in 1..(j - 1) : Block(k).hash # x
              ELSE r = NoRef

\* C16: a block's hash is assigned after its height, time and previous hash
\* and none of them changes afterwards: every block object that has a hash,
\* and so every block of the chain, has the hash of its own field values,
\* under every interleaving of appends.
C16_HashCommits ==
    /\ \A id \in DOMAIN blk :
          blk[id].hash # Null => blk[id].hash = SHA256(blk[id])
    /\ \A i \in 1..Len(chain) :
          Block(i).hash # Null /\ Block(i).hash = SHA256(Block(i))

\* two star blocks are in the chain, the last one linked to a predecessor
C16_Witness ==
    /\ Len(chain) = 3
    /\ Block(3).previousBlockHash # Null
    /\ Block(3).hash = SHA256(Block(3))

\* C17: validateChain records a linkage error for a block only when no block
\* of the chain has the hash the block names as its previous hash, and a
\* lookup that finds nothing is recorded, not raised: on a correctly linked
\* chain no linkage error is recorded.
C17_LinkageCheck ==
    /\ ~unhandled
    /\ \A inv \in DOMAIN vcLog :
          \A j \in 1..Len(vcLog[inv]) :
              vcLog[inv][j].kind = "Invalid previous block" =>
                  getBlockByHash(chain, blk, vcLog[inv][j].prev) = NoRef

\* C18: a chain scan inspects every block before its result is delivered: no
\* callback of validateChain is still waiting to inspect its block once the
\* promise of its scan is settled, and none of getStarsByWalletAddress once
\* the caller has received the array.
C18_ScanCompletes ==
    \A i \in 1..Len(queue) :
        /\ queue[i].pc \in {"vcheck", "vlink"} =>
               queue[i].inv \notin DOMAIN vcResult
        /\ queue[i].pc = "sdecode" => ~gs[queue[i].inv[2]].delivered

\* calls i and j were given the same address, message, signature and star
SameSubmission(i, j) ==
    /\ calls[i].address = calls[j].address
    /\ calls[i].message = calls[j].message
    /\ calls[i].signature = calls[j].signature
    /\ calls[i].star = calls[j].star

\* the message of call i is not older than the limit of line 144 when the
\* call is made
InWindow(i) ==
    \/ calls[i].message.time = <<>>
    \/ calls[i].curTime - calls[i].message.time[1] <= 5 * 60 * 1000

Accepted(i) == result[i] \in {"pending", "resolved"}

\* C19: submitStar keeps no record of the messages it has accepted: a
\* submission accepted once is accepted again whenever it is repeated inside
\* the window, and every call that resolves has added exactly one block of
\* its own to the chain, whether or not the same record is already there.
C19_NoReplayProtection ==
    /\ \A i \in 1..Len(calls) : \A j \in (i + 1)..Len(calls) :
          (SameSubmission(i, j) /\ Accepted(i) /\ InWindow(j)) => Accepted(j)
    /\ \A i \in 1..Len(calls) :
          result[i] = "resolved" =>
              Cardinality({j \in 1..Len(chain) : chain[j] = i}) = 1
    /\ Cardinality({j \in 1..Len(chain) : chain[j] # GenesisId})
          <= Cardinality({i \in 1..Len(calls) : Accepted(i)})

\* the same submission was made twice and the chain holds a block for each
C19_Witness ==
    /\ Len(calls) = 2
    /\ SameSubmission(1, 2)
    /\ result = <<"resolved", "resolved">>
    /\ chain = <<GenesisId, 1, 2>>
    /\ blk[1].body = blk[2].body

\* the time in the message of call i is later than the clock was at the call
AheadOfClock(i) ==
    /\ calls[i].message.time # <<>>
    /\ calls[i].message.time[1] > calls[i].curTime

\* C20: the expiry check is one-sided: a submitStar whose message carries a
\* time later than the clock is never rejected as expired, and is rejected
\* exactly when its signature does not verify.
C20_OneSidedExpiry ==
    \A i \in 1..Len(calls) :
        AheadOfClock(i) =>
            /\ result[i] # Expired5min
            /\ result[i] = VerifyFailed <=> ~SignatureMatches(calls[i])

\* a correctly signed message from the future was accepted and its block
\* appended, and one with a wrong signature was rejected for the signature
C20_Witness ==
    /\ Len(calls) = 2
    /\ AheadOfClock(1) /\ result[1] = "resolved" /\ chain = <<GenesisId, 1>>
    /\ AheadOfClock(2) /\ result[2] = VerifyFailed
====
